---- MODULE Spec2Model ----
(***************************************************************************)
(* USD/JPY forward FX rate calculator (src/app.py).                        *)
(*                                                                         *)
(* The model covers the two helper functions, calculate_forward_rate and   *)
(* get_future_date, and the loop that fills forward_data.                  *)
(*                                                                         *)
(* Numbers: Python floats are modelled as exact rationals <<n, d>> with    *)
(* d > 0 in lowest terms, so rounding, overflow to inf and underflow are   *)
(* outside the model.  A float division raises ZeroDivisionError exactly   *)
(* when its divisor is zero, and that is modelled.                         *)
(* Dates: a datetime.date is the tuple <<year, month, day>> of the         *)
(* proleptic Gregorian calendar.                                           *)
(* Optional values: None is <<>> and a present value v is <<v>>.           *)
(* Strings that the code indexes (tenor codes) are sequences of one-       *)
(* character strings.                                                      *)
(***************************************************************************)
EXTENDS Integers, Sequences, FiniteSets, TLC

VARIABLES
    pc,                 \* position of the run
    spot_rate,          \* app.py:115
    usd_rate_pct,       \* app.py:118 (base currency rate, percent)
    jpy_rate_pct,       \* app.py:121 (quote currency rate, percent)
    value_date,         \* app.py:130
    day_basis,          \* app.py:139
    forward_date,       \* forward date of the latest calculate_forward_rate call
    result,             \* what that call returned and reported
    prev_forward_date,  \* forward date of the call before it (same other inputs)
    prev_result,        \* and its result
    tenor_str,          \* argument of the latest get_future_date call
    future,             \* what that call returned and reported
    tenors,             \* app.py:183
    pos,                \* number of tenors the loop of app.py:187 has handled
    forward_data        \* app.py:185

vars == <<pc, spot_rate, usd_rate_pct, jpy_rate_pct, value_date, day_basis,
          forward_date, result, prev_forward_date, prev_result,
          tenor_str, future, tenors, pos, forward_data>>

None == <<>>
Some(v) == <<v>>

----------------------------------------------------------------------------
(* Exact rational arithmetic standing for float arithmetic.                *)

Abs(n) == IF n < 0 THEN -n ELSE n

RECURSIVE GCD(_, _)
GCD(a, b) == IF b = 0 THEN a ELSE GCD(b, a % b)

RNorm(n, d) ==
    LET g == GCD(Abs(n), Abs(d))
        s == IF d < 0 THEN -1 ELSE 1
    IN  <<(s * n) \div g, (s * d) \div g>>

R(n) == <<n, 1>>

RIsZero(a) == a[1] = 0

RNeg(a) == <<-a[1], a[2]>>

RAdd(a, b) ==
    LET g == GCD(a[2], b[2])
    IN  RNorm(a[1] * (b[2] \div g) + b[1] * (a[2] \div g), (a[2] \div g) * b[2])

RSub(a, b) == RAdd(a, RNeg(b))

RMul(a, b) ==
    LET g1 == GCD(Abs(a[1]), b[2])
        g2 == GCD(Abs(b[1]), a[2])
    IN  RNorm((a[1] \div g1) * (b[1] \div g2), (a[2] \div g2) * (b[2] \div g1))

\* a / b for b # 0 (the callers check the divisor first, as Python raises)
RDiv(a, b) == RMul(a, IF b[1] < 0 THEN <<-b[2], -b[1]>> ELSE <<b[2], b[1]>>)

\* a < b without cross-multiplying: compare the integer parts, then the
\* reciprocals of the fractional parts
RECURSIVE RLess(_, _)
RLess(a, b) ==
    LET qa == a[1] \div a[2]
        qb == b[1] \div b[2]
        ra == a[1] % a[2]
        rb == b[1] % b[2]
    IN  IF qa # qb THEN qa < qb
        ELSE IF rb = 0 THEN FALSE
        ELSE IF ra = 0 THEN TRUE
        ELSE RLess(<<b[2], rb>>, <<a[2], ra>>)

RPositive(a) == a[1] > 0

----------------------------------------------------------------------------
(* datetime.date                                                           *)

IsLeap(y) == (y % 4 = 0) /\ ((y % 100 # 0) \/ (y % 400 = 0))

DaysInMonth(y, m) ==
    IF m = 2 THEN (IF IsLeap(y) THEN 29 ELSE 28)
    ELSE IF m \in {4, 6, 9, 11} THEN 30 ELSE 31

RECURSIVE DaysBeforeMonth(_, _)
DaysBeforeMonth(y, m) ==
    IF m = 1 THEN 0 ELSE DaysBeforeMonth(y, m - 1) + DaysInMonth(y, m - 1)

DaysBeforeYear(y) ==
    LET p == y - 1 IN p * 365 + p \div 4 - p \div 100 + p \div 400

\* date.toordinal()
ToOrdinal(dt) == DaysBeforeYear(dt[1]) + DaysBeforeMonth(dt[1], dt[2]) + dt[3]

\* a < b on dates
DateLT(a, b) ==
    \/ a[1] < b[1]
    \/ a[1] = b[1] /\ a[2] < b[2]
    \/ a[1] = b[1] /\ a[2] = b[2] /\ a[3] < b[3]

\* variant with the operands of the subtraction exchanged; C5_Monotone rejects it
DateDiffDaysReversed(a, b) == ToOrdinal(b) - ToOrdinal(a)

\* (a - b).days
DateDiffDays(a, b) == ToOrdinal(a) - ToOrdinal(b)

\* dt + timedelta(days=k)
RECURSIVE AddDays(_, _)
AddDays(dt, k) ==
    LET y == dt[1]
        m == dt[2]
        d == dt[3]
    IN  IF k >= 0
        THEN IF d + k <= DaysInMonth(y, m) THEN <<y, m, d + k>>
             ELSE AddDays(IF m = 12 THEN <<y + 1, 1, 1>> ELSE <<y, m + 1, 1>>,
                          k - (DaysInMonth(y, m) - d + 1))
        ELSE IF d + k >= 1 THEN <<y, m, d + k>>
             ELSE AddDays(IF m = 1 THEN <<y - 1, 12, 31>>
                          ELSE <<y, m - 1, DaysInMonth(y, m - 1)>>,
                          k + d)

----------------------------------------------------------------------------
(* dateutil.relativedelta, as get_future_date uses it: start_date +        *)
(* relativedelta(years=, months=, weeks=)                                  *)

MINYEAR == 1
MAXYEAR == 9999

\* relativedelta._fix: months beyond +-11 carry into years, sign kept
FixYears(years, months) ==
    IF Abs(months) > 11
    THEN years + (IF months < 0 THEN -1 ELSE 1) * (Abs(months) \div 12)
    ELSE years

FixMonths(months) ==
    IF Abs(months) > 11
    THEN (IF months < 0 THEN -1 ELSE 1) * (Abs(months) % 12)
    ELSE months

\* variant without the clamping to the target month; C6_MonthClamp rejects it
ClampDayNone(year, month, day) == day

\* the day of the target month: min(monthrange(year, month)[1], dt.day)
ClampDay(year, month, day) ==
    IF day > DaysInMonth(year, month) THEN DaysInMonth(year, month) ELSE day

\* relativedelta.__radd__: the year and month move first, the day is clamped
\* to the target month, then the days (weeks * 7) are added as a timedelta.
\* exc is the exception date.replace or the timedelta addition raises.
RelativeDeltaAdd(dt, years, months, weeks) ==
    LET fy    == FixYears(years, months)
        fm    == FixMonths(months)
        m0    == dt[2] + fm
        year  == dt[1] + fy + (IF m0 > 12 THEN 1 ELSE IF m0 < 1 THEN -1 ELSE 0)
        month == IF m0 > 12 THEN m0 - 12 ELSE IF m0 < 1 THEN m0 + 12 ELSE m0
    IN  IF year < MINYEAR \/ year > MAXYEAR
        THEN [exc |-> "ValueError", date |-> dt]
        ELSE LET repl == <<year, month, ClampDay(year, month, dt[3])>>
                 ord  == ToOrdinal(repl) + 7 * weeks
             IN  IF ord < ToOrdinal(<<MINYEAR, 1, 1>>) \/ ord > ToOrdinal(<<MAXYEAR, 12, 31>>)
                 THEN [exc |-> "OverflowError", date |-> dt]
                 ELSE [exc |-> "none", date |-> AddDays(repl, 7 * weeks)]

----------------------------------------------------------------------------
(* get_future_date (app.py:71-100)                                         *)

Digits == {"0", "1", "2", "3", "4", "5", "6", "7", "8", "9"}

DigitVal(c) ==
    CASE c = "0" -> 0 [] c = "1" -> 1 [] c = "2" -> 2 [] c = "3" -> 3
      [] c = "4" -> 4 [] c = "5" -> 5 [] c = "6" -> 6 [] c = "7" -> 7
      [] c = "8" -> 8 [] c = "9" -> 9

\* value of a non-empty sequence of digits
RECURSIVE DigitsVal(_)
DigitsVal(s) ==
    IF Len(s) = 0 THEN 0
    ELSE 10 * DigitsVal(SubSeq(s, 1, Len(s) - 1)) + DigitVal(s[Len(s)])

AllDigits(s) == Len(s) > 0 /\ \A k \in 1..Len(s) : s[k] \in Digits

\* int(s) for a string of digits, signs and letters: an optional sign and
\* then at least one digit; anything else raises ValueError (None here)
ParseInt(s) ==
    IF Len(s) > 0 /\ s[1] \in {"-", "+"}
    THEN IF AllDigits(Tail(s))
         THEN Some((IF s[1] = "-" THEN -1 ELSE 1) * DigitsVal(Tail(s)))
         ELSE None
    ELSE IF AllDigits(s) THEN Some(DigitsVal(s)) ELSE None

\* str.upper() of one character
Upper(c) ==
    CASE c = "w" -> "W" [] c = "m" -> "M" [] c = "y" -> "Y" [] c = "x" -> "X"
      [] OTHER -> c

WarnUnit  == "Unrecognized tenor unit"
WarnParse == "Could not parse tenor string"
ErrFuture == "Error calculating future date"

\* variant with the W and M branches exchanged; C10_Increasing rejects it
UnitDeltaSwapped(start_date, unit, num) ==
    IF unit = "W" THEN RelativeDeltaAdd(start_date, 0, num, 0)
    ELSE IF unit = "M" THEN RelativeDeltaAdd(start_date, 0, 0, num)
    ELSE RelativeDeltaAdd(start_date, num, 0, 0)

\* the relativedelta chosen by the unit (app.py:86-91); a unit outside
\* W, M, Y has none
UnitDelta(start_date, unit, num) ==
    IF unit = "W" THEN RelativeDeltaAdd(start_date, 0, 0, num)
    ELSE IF unit = "M" THEN RelativeDeltaAdd(start_date, 0, num, 0)
    ELSE RelativeDeltaAdd(start_date, num, 0, 0)

\* returns the date and the message given to st.warning / st.error ("" when
\* nothing is reported)
get_future_date(start_date, s) ==
    LET num == ParseInt(SubSeq(s, 1, Len(s) - 1))
    IN  IF num = None
        THEN [date |-> start_date, warning |-> WarnParse]
        ELSE LET unit == Upper(s[Len(s)])
             IN  IF unit \notin {"W", "M", "Y"}
                 THEN [date |-> start_date, warning |-> WarnUnit]
                 ELSE LET r == UnitDelta(start_date, unit, num[1])
                      IN  IF r.exc = "none"
                          THEN [date |-> r.date, warning |-> ""]
                          ELSE IF r.exc = "ValueError"
                          THEN [date |-> start_date, warning |-> WarnParse]
                          ELSE [date |-> start_date, warning |-> ErrFuture]

----------------------------------------------------------------------------
(* calculate_forward_rate (app.py:15-68)                                   *)

ErrDateOrder == "Forward date must be after the value date."
ErrDayBasis  == "Day basis cannot be zero."
ErrCalc      == "An error occurred during calculation"

\* variant with < for <=; C1_InvalidDateOrder rejects it
DateNotAfterStrict(fwd, val) == DateLT(fwd, val)

\* app.py:40
DateNotAfter(fwd, val) == ~DateLT(val, fwd)

\* variant that leaves the percentage as it is; C9_Positive rejects it
PctToDecimalNone(pct) == pct

\* app.py:45-46
PctToDecimal(pct) == RDiv(pct, R(100))

\* 1 + rate * (days / day_basis), for day_basis # 0
Accrual(rate, days, basis) == RAdd(R(1), RMul(rate, RDiv(R(days), R(basis))))

\* the exception the try block raises (app.py:52-62): the explicit raise for a
\* zero day basis, or the division by a zero denominator
FormulaRaises(rate_base, days, basis) ==
    IF basis = 0 THEN "ZeroDivisionError"
    ELSE IF RIsZero(Accrual(rate_base, days, basis)) THEN "ZeroDivisionError"
    ELSE "none"

\* variant without the parentheses around the quotient:
\* spot * (1 + rq * t) / 1 + rb * t; C4_EqualRates rejects it
ForwardFormulaNoParens(spot, rate_base, rate_quote, days, basis) ==
    RAdd(RMul(spot, Accrual(rate_quote, days, basis)),
         RMul(rate_base, RDiv(R(days), R(basis))))

\* app.py:57-59, when nothing raises
ForwardFormula(spot, rate_base, rate_quote, days, basis) ==
    RMul(spot, RDiv(Accrual(rate_quote, days, basis), Accrual(rate_base, days, basis)))

\* app.py:61
ForwardPoints(fwd, spot) == RMul(RSub(fwd, spot), R(100))

\* variant with the catch-all handler first; C2_DayBasisZero rejects it
HandlerMessageCatchAll(exc) == ErrCalc

\* the message of the handler that catches exc (app.py:63-68)
HandlerMessage(exc) == IF exc = "ZeroDivisionError" THEN ErrDayBasis ELSE ErrCalc

Failure(msg, steps) ==
    [rate |-> None, points |-> None, days |-> None, error |-> msg, evaluated |-> steps]

\* rate, points, days: the returned tuple; error: the message given to
\* st.error ("" when none); evaluated: which of the day count (app.py:49) and
\* the rate formula (app.py:57) were evaluated
calculate_forward_rate(spot, base_pct, quote_pct, val, fwd, basis) ==
    IF DateNotAfter(fwd, val) THEN Failure(ErrDateOrder, {})
    ELSE LET rate_base  == PctToDecimal(base_pct)
             rate_quote == PctToDecimal(quote_pct)
             days       == DateDiffDays(fwd, val)
             exc        == FormulaRaises(rate_base, days, basis)
         IN  IF exc # "none"
             THEN Failure(HandlerMessage(exc),
                          IF basis = 0 THEN {"days"} ELSE {"days", "formula"})
             ELSE LET forward_rate == ForwardFormula(spot, rate_base, rate_quote, days, basis)
                  IN  [rate      |-> Some(forward_rate),
                       points    |-> Some(ForwardPoints(forward_rate, spot)),
                       days      |-> Some(days),
                       error     |-> "",
                       evaluated |-> {"days", "formula"}]

----------------------------------------------------------------------------
(* The loop that fills forward_data (app.py:183-211)                       *)

FixedTenors ==
    << <<"1", "W">>, <<"1", "M">>, <<"2", "M">>, <<"3", "M">>,
       <<"6", "M">>, <<"9", "M">>, <<"1", "Y">>, <<"2", "Y">> >>

Row(tenor, f_date, r) ==
    [Tenor |-> tenor, SettlementDate |-> f_date, Days |-> r.days[1],
     ForwardRate |-> r.rate[1], ForwardPoints |-> r.points[1]]

\* app.py:197
HasResult(r) == r.rate # None /\ r.points # None /\ r.days # None

\* variant that puts the new row first; C8_CurveRows rejects it
LoopBodyPrepend(data, tenor, val, spot, usd, jpy, basis) ==
    LET f_date == get_future_date(val, tenor).date
    IN  IF DateLT(val, f_date)
        THEN LET r == calculate_forward_rate(spot, usd, jpy, val, f_date, basis)
             IN  IF HasResult(r) THEN <<Row(tenor, f_date, r)>> \o data ELSE data
        ELSE data

\* one iteration of the loop body (app.py:188-211): forward_data afterwards
LoopBody(data, tenor, val, spot, usd, jpy, basis) ==
    LET f_date == get_future_date(val, tenor).date
    IN  IF DateLT(val, f_date)
        THEN LET r == calculate_forward_rate(spot, usd, jpy, val, f_date, basis)
             IN  IF HasResult(r) THEN Append(data, Row(tenor, f_date, r)) ELSE data
        ELSE data

----------------------------------------------------------------------------
(* Inputs                                                                  *)

NumYears == 2
MaxTenorLen == 2

Years == 2023 .. (2022 + NumYears)

AllDates ==
    {<<y, m, d>> : y \in Years, m \in 1..12, d \in 1..31} \cap
    {dt \in Years \X (1..12) \X (1..31) : dt[3] <= DaysInMonth(dt[1], dt[2])}

\* inputs of the calls of calculate_forward_rate
Spots    == {R(-1), R(0), R(2), <<291, 2>>}
Rates    == {R(-200), R(-100), R(0), R(5)}
DayBases == {0, 360, 365, -360}
CalcDates ==
    {<<2023, 12, 31>>, <<2024, 1, 1>>, <<2024, 1, 2>>, <<2024, 4, 1>>,
     <<2024, 12, 26>>, <<2024, 12, 31>>, <<2025, 12, 31>>}

\* tenor codes given to get_future_date
TenorChars == {"0", "1", "-", "W", "M", "y", "X"}
ShortCodes == UNION {[1..k -> TenorChars] : k \in 0..MaxTenorLen}
LongCodes ==
    {<<"1", "2", "M">>, <<"1", "3", "M">>, <<"2", "4", "M">>, <<"1", "0", "W">>,
     <<"-", "1", "M">>, <<"-", "1", "3", "M">>, <<"-", "1", "W">>, <<"-", "1", "Y">>,
     <<"1", "M", "M">>, <<"9", "X">>, <<"1", "m">>, <<"2", "w">>}
TenorCodes == ShortCodes \cup LongCodes \cup {FixedTenors[k] : k \in 1..Len(FixedTenors)}

\* tenor schedules given to the loop
Schedules ==
    {FixedTenors,
     << <<"9", "X">> >>,
     << <<"1", "M">>, <<"9", "X">>, <<"1", "W">>, <<"0", "M">> >>,
     << <<"-", "1", "M">>, <<"1", "y">>, <<"M">>, <<"1", "M">>, <<"1", "M">> >>,
     << >>}

\* spot, USD rate, JPY rate of the runs of the loop
CurveRates ==
    {<< <<291, 2>>, <<21, 4>>, <<-1, 10>> >>,
     << <<291, 2>>, R(-100), R(0) >>}

NoFuture == [date |-> None, warning |-> ""]
NoResult == Failure("", {})

----------------------------------------------------------------------------
(* Calls of calculate_forward_rate with the other inputs held fixed        *)

InitForward ==
    /\ pc = "forward"
    /\ spot_rate \in Spots
    /\ usd_rate_pct \in Rates
    /\ jpy_rate_pct \in Rates
    /\ value_date \in CalcDates
    /\ day_basis \in DayBases
    /\ forward_date = None
    /\ result = NoResult
    /\ prev_forward_date = None
    /\ prev_result = NoResult
    /\ tenor_str = <<>>
    /\ future = NoFuture
    /\ tenors = <<>>
    /\ pos = 0
    /\ forward_data = <<>>

CalcForward ==
    /\ pc = "forward"
    /\ \E f \in CalcDates :
          /\ forward_date' = f
          /\ result' = calculate_forward_rate(spot_rate, usd_rate_pct, jpy_rate_pct,
                                              value_date, f, day_basis)
    /\ prev_forward_date' = forward_date
    /\ prev_result' = result
    /\ UNCHANGED <<pc, spot_rate, usd_rate_pct, jpy_rate_pct, value_date, day_basis,
                   tenor_str, future, tenors, pos, forward_data>>

NextForward == CalcForward

SpecForward == InitForward /\ [][NextForward]_vars

----------------------------------------------------------------------------
(* A call of get_future_date                                               *)

InitTenor ==
    /\ pc = "tenor"
    /\ spot_rate = R(1)
    /\ usd_rate_pct = R(0)
    /\ jpy_rate_pct = R(0)
    /\ value_date \in AllDates
    /\ day_basis = 360
    /\ forward_date = None
    /\ result = NoResult
    /\ prev_forward_date = None
    /\ prev_result = NoResult
    /\ tenor_str \in TenorCodes
    /\ future = NoFuture
    /\ tenors = <<>>
    /\ pos = 0
    /\ forward_data = <<>>

ResolveTenor ==
    /\ pc = "tenor"
    /\ pc' = "resolved"
    /\ future' = get_future_date(value_date, tenor_str)
    /\ UNCHANGED <<spot_rate, usd_rate_pct, jpy_rate_pct, value_date, day_basis,
                   forward_date, result, prev_forward_date, prev_result,
                   tenor_str, tenors, pos, forward_data>>

NextTenor == ResolveTenor

SpecTenor == InitTenor /\ [][NextTenor]_vars

----------------------------------------------------------------------------
(* A run of the forward curve section of the script                        *)

Init ==
    /\ pc = "curve"
    /\ \E in \in CurveRates :
          /\ spot_rate = in[1]
          /\ usd_rate_pct = in[2]
          /\ jpy_rate_pct = in[3]
    /\ value_date \in AllDates
    /\ day_basis \in DayBases
    /\ forward_date = None
    /\ result = NoResult
    /\ prev_forward_date = None
    /\ prev_result = NoResult
    /\ tenor_str = <<>>
    /\ future = NoFuture
    /\ tenors \in Schedules
    /\ pos = 0
    /\ forward_data = <<>>

\* one iteration (app.py:187-211); future and result keep what the two
\* helpers returned in it
LoopStep ==
    /\ pc = "curve"
    /\ pos < Len(tenors)
    /\ LET tenor == tenors[pos + 1]
           f     == get_future_date(value_date, tenor)
       IN  /\ tenor_str' = tenor
           /\ future' = f
           /\ IF DateLT(value_date, f.date)
              THEN /\ forward_date' = f.date
                   /\ result' = calculate_forward_rate(spot_rate, usd_rate_pct,
                                    jpy_rate_pct, value_date, f.date, day_basis)
              ELSE /\ forward_date' = None
                   /\ result' = NoResult
           /\ forward_data' = LoopBody(forward_data, tenor, value_date, spot_rate,
                                       usd_rate_pct, jpy_rate_pct, day_basis)
    /\ pos' = pos + 1
    /\ UNCHANGED <<pc, spot_rate, usd_rate_pct, jpy_rate_pct, value_date, day_basis,
                   prev_forward_date, prev_result, tenors>>

\* app.py:214-251: the chart and the table, or the warning for an empty curve
Render ==
    /\ pc = "curve"
    /\ pos = Len(tenors)
    /\ pc' = IF forward_data # <<>> THEN "chart" ELSE "empty_warning"
    /\ UNCHANGED <<spot_rate, usd_rate_pct, jpy_rate_pct, value_date, day_basis,
                   forward_date, result, prev_forward_date, prev_result,
                   tenor_str, future, tenors, pos, forward_data>>

Next == LoopStep \/ Render

Spec == Init /\ [][Next]_vars

----------------------------------------------------------------------------
(* Properties.  Their preconditions are stated on the inputs with integer  *)
(* arithmetic of their own, not with the operators of the model.           *)

Sgn(n) == IF n > 0 THEN 1 ELSE IF n < 0 THEN -1 ELSE 0

\* sign of 1 + (pct / 100) * (days / basis), for basis # 0
AccrualSign(pct, days, basis) == Sgn(100 * pct[2] * basis + pct[1] * days) * Sgn(basis)

Called == pc = "forward" /\ forward_date # None
CalledTwice == Called /\ prev_forward_date # None
DaysOfCall == ToOrdinal(forward_date) - ToOrdinal(value_date)
DaysOfPrevCall == ToOrdinal(prev_forward_date) - ToOrdinal(value_date)
NoNumbers(r) == r.rate = None /\ r.points = None /\ r.days = None

\* the inputs the data model admits: a positive spot rate, and a day basis
\* that is no negative number (360, 365, or the 0 the code handles)
Admitted == RPositive(spot_rate) /\ day_basis >= 0

\* C1: a call with forward_date <= value_date reports the date-order failure
\* and returns no forward rate, no forward points and no days; neither the day
\* count nor the rate formula is evaluated.
C1_InvalidDateOrder ==
    (Called /\ DaysOfCall <= 0)
        => /\ result.error = ErrDateOrder
           /\ NoNumbers(result)
           /\ result.evaluated = {}

C1_Witness ==
    /\ Called
    /\ DaysOfCall = 0
    /\ day_basis = 0
    /\ result.error = ErrDateOrder

\* C2 as stated: every call with day_basis = 0 reports the day-basis failure,
\* whatever the other arguments are.
C2_Original ==
    (Called /\ Admitted /\ day_basis = 0) => (result.error = ErrDayBasis /\ NoNumbers(result))

\* C2 amended: a call with day_basis = 0 and forward_date > value_date reports
\* the day-basis failure and returns no numeric result.
C2_DayBasisZero ==
    (Called /\ day_basis = 0 /\ DaysOfCall > 0)
        => (result.error = ErrDayBasis /\ NoNumbers(result))

C2_Witness ==
    /\ Called
    /\ day_basis = 0
    /\ DaysOfCall > 0
    /\ result.error = ErrDayBasis

\* C3: with day_basis # 0 and forward_date > value_date, a failure of the
\* arithmetic is never reported as the day-basis-is-zero failure.
C3_ComputationErrorDistinct ==
    (Called /\ Admitted /\ day_basis # 0 /\ DaysOfCall > 0) => result.error # ErrDayBasis

\* C4 as stated: with equal rates, forward_date > value_date and day_basis # 0
\* the call succeeds with forward rate = spot rate and forward points = 0.
C4_Original ==
    (Called /\ Admitted /\ usd_rate_pct = jpy_rate_pct /\ DaysOfCall > 0 /\ day_basis # 0)
        => /\ result.error = ""
           /\ result.rate = Some(spot_rate)
           /\ result.points = Some(R(0))

\* C4 amended: the same, provided 1 + rate * (days / day_basis) is not zero.
C4_EqualRates ==
    (/\ Called
     /\ usd_rate_pct = jpy_rate_pct
     /\ DaysOfCall > 0
     /\ day_basis # 0
     /\ AccrualSign(usd_rate_pct, DaysOfCall, day_basis) # 0)
        => /\ result.error = ""
           /\ result.rate = Some(spot_rate)
           /\ result.points = Some(R(0))
           /\ result.days = Some(DaysOfCall)

C4_Witness ==
    /\ Called
    /\ usd_rate_pct = jpy_rate_pct
    /\ usd_rate_pct # R(0)
    /\ DaysOfCall > 0
    /\ day_basis = 365
    /\ result.rate = Some(spot_rate)

\* two successful calls that differ in the forward date only, the earlier
\* forward date first, with the quote rate above the base rate
TwoTenors ==
    /\ CalledTwice
    /\ 0 < DaysOfPrevCall
    /\ DaysOfPrevCall < DaysOfCall
    /\ RLess(usd_rate_pct, jpy_rate_pct)
    /\ result.rate # None
    /\ prev_result.rate # None

\* C5 as stated: with the quote rate above the base rate the forward rate of
\* the later forward date is strictly greater.
C5_Original == (TwoTenors /\ Admitted) => RLess(prev_result.rate[1], result.rate[1])

\* C5 amended: the same for a positive spot rate and a positive day basis,
\* provided 1 + rateBase * (days / day_basis) has the same sign at both dates.
C5_Monotone ==
    (/\ TwoTenors
     /\ RPositive(spot_rate)
     /\ day_basis > 0
     /\ AccrualSign(usd_rate_pct, DaysOfPrevCall, day_basis)
            = AccrualSign(usd_rate_pct, DaysOfCall, day_basis))
        => RLess(prev_result.rate[1], result.rate[1])

C5_Witness ==
    /\ TwoTenors
    /\ RPositive(spot_rate)
    /\ day_basis > 0
    /\ usd_rate_pct = R(-100)
    /\ AccrualSign(usd_rate_pct, DaysOfPrevCall, day_basis) = -1
    /\ AccrualSign(usd_rate_pct, DaysOfCall, day_basis) = -1
    /\ RLess(prev_result.rate[1], result.rate[1])

\* C9 as stated: a successful call with a positive spot rate returns a
\* strictly positive forward rate.
C9_Original ==
    (Called /\ Admitted /\ result.rate # None) => RPositive(result.rate[1])

\* C9 amended: the same, provided 1 + rateQuote * (days / day_basis) and
\* 1 + rateBase * (days / day_basis) are both positive or both negative.
C9_Positive ==
    (/\ Called
     /\ result.rate # None
     /\ RPositive(spot_rate)
     /\ AccrualSign(jpy_rate_pct, DaysOfCall, day_basis)
            = AccrualSign(usd_rate_pct, DaysOfCall, day_basis))
        => RPositive(result.rate[1])

C9_Witness ==
    /\ Called
    /\ result.rate # None
    /\ RPositive(spot_rate)
    /\ jpy_rate_pct = R(-100)
    /\ usd_rate_pct = R(5)
    /\ AccrualSign(jpy_rate_pct, DaysOfCall, day_basis) = 1
    /\ RPositive(result.rate[1])

----------------------------------------------------------------------------
(* Properties of get_future_date and of the loop                           *)

Resolved == pc = "resolved"

\* a tenor code as the parsing rule describes it: digits that make a positive
\* number, then one of W, M, Y in either case
Magnitude(s) == DigitsVal(SubSeq(s, 1, Len(s) - 1))
ValidTenor(s) ==
    /\ Len(s) >= 2
    /\ s[Len(s)] \in {"W", "M", "Y", "w", "m", "y"}
    /\ \A k \in 1..(Len(s) - 1) : s[k] \in Digits
    /\ Magnitude(s) > 0

\* the date n calendar months after dt, same day of month or the last day of
\* the target month, counting months from year 0
MonthsLater(dt, n) ==
    LET k == dt[1] * 12 + (dt[2] - 1) + n
        y == k \div 12
        m == (k % 12) + 1
    IN  <<y, m, IF dt[3] <= DaysInMonth(y, m) THEN dt[3] ELSE DaysInMonth(y, m)>>

\* C6: for a positive magnitude n, "<n>M" resolves to the date n calendar
\* months after the start date with the same day of month, clamped to the last
\* day of the target month; 2024-01-31 + 1M = 2024-02-29 and
\* 2023-01-31 + 1M = 2023-02-28.
C6_MonthClamp ==
    /\ (Resolved /\ ValidTenor(tenor_str) /\ tenor_str[Len(tenor_str)] \in {"M", "m"})
          => /\ future.date = MonthsLater(value_date, Magnitude(tenor_str))
             /\ future.warning = ""
    /\ (Resolved /\ tenor_str = <<"1", "M">> /\ value_date = <<2024, 1, 31>>)
          => future.date = <<2024, 2, 29>>
    /\ (Resolved /\ tenor_str = <<"1", "M">> /\ value_date = <<2023, 1, 31>>)
          => future.date = <<2023, 2, 28>>

C6_Witness ==
    /\ Resolved
    /\ tenor_str = <<"1", "3", "M">>
    /\ value_date = <<2023, 1, 31>>
    /\ future.date = <<2024, 2, 29>>

\* C7: a tenor code that is not a positive magnitude followed by W, M or Y is
\* reported as unrecognized (a warning or an error is given and the start date
\* comes back).
C7_InvalidTenorFails ==
    (Resolved /\ ~ValidTenor(tenor_str))
        => (future.warning # "" /\ future.date = value_date)

\* the tenors of the schedule that get a row: a valid code whose date is in
\* range, a day basis that is not zero and a denominator that is not zero
DateOf(t) == get_future_date(value_date, t).date
Qualifies(t) ==
    /\ ValidTenor(t)
    /\ day_basis # 0
    /\ AccrualSign(usd_rate_pct, ToOrdinal(DateOf(t)) - ToOrdinal(value_date), day_basis) # 0

Finished == pc \in {"chart", "empty_warning"}

\* C8: the loop ends with exactly one row for each tenor that resolves to a
\* date after the value date and for which the calculation succeeds, in the
\* order of the schedule, and with no other row; a schedule whose tenors all
\* fail gives the empty sequence.
C8_CurveRows ==
    /\ pos <= Len(tenors)
    /\ Len(forward_data) <= pos
    /\ Finished =>
          /\ pos = Len(tenors)
          /\ [k \in 1..Len(forward_data) |-> forward_data[k].Tenor]
                = SelectSeq(tenors, Qualifies)
          /\ \A k \in 1..Len(forward_data) :
                /\ forward_data[k].SettlementDate = DateOf(forward_data[k].Tenor)
                /\ forward_data[k].Days
                      = ToOrdinal(DateOf(forward_data[k].Tenor)) - ToOrdinal(value_date)
                /\ forward_data[k].Days > 0
          /\ (tenors = << <<"9", "X">> >>) => (forward_data = <<>> /\ pc = "empty_warning")

C8_Witness ==
    /\ pc = "chart"
    /\ tenors = FixedTenors
    /\ day_basis = 365
    /\ Len(forward_data) = 7
    /\ \A k \in 1..7 : forward_data[k].Tenor # <<"1", "Y">>

\* C10: for the fixed schedule the rows have strictly increasing settlement
\* dates and strictly increasing day counts.
C10_Increasing ==
    (tenors = FixedTenors) =>
        \A j \in 1..Len(forward_data) : \A k \in 1..Len(forward_data) :
            (j < k) =>
                /\ ToOrdinal(forward_data[j].SettlementDate)
                      < ToOrdinal(forward_data[k].SettlementDate)
                /\ forward_data[j].Days < forward_data[k].Days

C10_Witness ==
    /\ pc = "chart"
    /\ tenors = FixedTenors
    /\ value_date = <<2024, 2, 29>>
    /\ Len(forward_data) = 8
    /\ forward_data[7].SettlementDate = <<2025, 2, 28>>

====
